---- MODULE Spec2Model ----
(***************************************************************************)
(* NodePath (godot-core/src/builtin/string/node_path.rs): the host-side    *)
(* wrapper of the engine's reference-counted node path.                    *)
(*                                                                         *)
(* The wrapper's own code (constructors, Clone, Drop, from_arg_ptr,        *)
(* from_sys_init_default, hash, is_empty, Display, Debug, From, serde) is  *)
(* translated from node_path.rs.  The engine side of every entry point it  *)
(* calls (node_path_construct_default, node_path_construct_copy,           *)
(* node_path_destroy, node_path_operator_equal, node_path_from_string, the *)
(* NodePath -> String conversion, the inner is_empty and hash methods) is  *)
(* not part of node_path.rs; it is modelled as the engine implements it:   *)
(* a NodePath is a pointer to shared, reference-counted data (absolute     *)
(* flag, names, subnames), and the empty path is the null pointer.         *)
(***************************************************************************)
EXTENDS Integers, Sequences, FiniteSets, TLC

\* ------------------------------------------------------------------ bounds

\* Longest text handed to the text conversions.
MaxLen == 3
\* Number of host-side NodePath instances ever created in one run.
MaxInst == 2
\* Number of engine-side allocations ever made in one run.
MaxBlocks == 2

\* ------------------------------------------------------------------- text

\* The characters texts are built from: a name character and the two
\* separators the engine's path syntax knows.
Alphabet == {"a", "/", ":"}

RECURSIVE StringsOfLen(_)
StringsOfLen(n) ==
    IF n = 0 THEN {<<>>}
    ELSE {Append(s, c) : s \in StringsOfLen(n - 1), c \in Alphabet}

StringsUpTo(n) == UNION {StringsOfLen(k) : k \in 0..n}

\* UTF-8 text -> engine string (code points) and back.
CodePoint(c) == CASE c = "a" -> 97 [] c = "/" -> 47 [] c = ":" -> 58

CharOf(u) == CHOOSE c \in Alphabet : CodePoint(c) = u

\* GString::from(&str)
GStringFromStr(s) == [i \in 1..Len(s) |-> CodePoint(s[i])]

\* <GString as fmt::Display>::fmt
GStringDisplay(g) == [i \in 1..Len(g) |-> CharOf(g[i])]

\* The segments of q between occurrences of sep, empty segments included.
RECURSIVE SplitAt(_, _)
SplitAt(q, sep) ==
    IF \A i \in 1..Len(q) : q[i] # sep THEN <<q>>
    ELSE LET k == CHOOSE i \in 1..Len(q) :
                      q[i] = sep /\ \A j \in 1..(i - 1) : q[j] # sep
         IN  <<SubSeq(q, 1, k - 1)>> \o SplitAt(SubSeq(q, k + 1, Len(q)), sep)

RECURSIVE DropEmpty(_)
DropEmpty(segs) ==
    IF segs = <<>> THEN <<>>
    ELSE IF Head(segs) = <<>> THEN DropEmpty(Tail(segs))
    ELSE <<Head(segs)>> \o DropEmpty(Tail(segs))

RECURSIVE JoinWith(_, _)
JoinWith(segs, sep) ==
    IF segs = <<>> THEN <<>>
    ELSE IF Len(segs) = 1 THEN Head(segs)
    ELSE Head(segs) \o <<sep>> \o JoinWith(Tail(segs), sep)

RECURSIVE Concat(_)
Concat(segs) == IF segs = <<>> THEN <<>> ELSE Head(segs) \o Concat(Tail(segs))

\* The null data pointer: the empty path.
Null == [null |-> TRUE]

Slash == CodePoint("/")
Colon == CodePoint(":")

\* The engine's NodePath(const String&), reached through
\* node_path_from_string: the data the text parses to, Null when it parses
\* to nothing.
ParsePath(g) ==
    IF Len(g) = 0 THEN Null
    ELSE
      LET absolute == (g[1] = Slash)
          hasColon == \E i \in 1..Len(g) : g[i] = Colon
          pos      == IF hasColon
                      THEN CHOOSE i \in 1..Len(g) :
                               g[i] = Colon /\ \A j \in 1..(i - 1) : g[j] # Colon
                      ELSE Len(g) + 1
          subsegs  == IF hasColon
                      THEN SplitAt(SubSeq(g, pos + 1, Len(g)), Colon)
                      ELSE <<>>
          \* an empty subname is an error unless it ends the text
          invalid  == \E i \in 1..(Len(subsegs) - 1) : subsegs[i] = <<>>
          subpath  == DropEmpty(subsegs)
          head     == SubSeq(g, 1, pos - 1)
          names    == DropEmpty(SplitAt(head, Slash))
      IN  IF invalid THEN Null
          ELSE IF names = <<>> /\ ~absolute /\ subpath = <<>> THEN Null
          ELSE [null |-> FALSE, absolute |-> absolute,
                path |-> names, subpath |-> subpath]

\* The engine's NodePath::operator String().
PathToString(d) ==
    IF d.null THEN <<>>
    ELSE (IF d.absolute THEN <<Slash>> ELSE <<>>)
         \o JoinWith(d.path, Slash)
         \o Concat([i \in 1..Len(d.subpath) |-> <<Colon>> \o d.subpath[i]])

\* The engine's NodePath::is_empty().
InnerIsEmpty(d) == d.null

\* The engine's NodePath::operator==, on the data two paths point to.
OperatorEqual(d, e) == d = e


\* ------------------------------------------------------- the engine's heap

VARIABLES
    heap,        \* the engine's allocations, in allocation order: each a
                 \* record [rc, data, freed, eng] (refcount, path data,
                 \* released to the allocator, references the engine owns)
    inst,        \* the host's NodePath instances, in creation order
    initDefault, \* the build's from_sys_init_or_init_default: TRUE when it
                 \* is from_sys_init_default, FALSE when it is from_sys_init
    last,        \* the result of the latest hash or deserialize call
    text,        \* SpecText: the text under conversion
    conv         \* SpecText: what the conversions made of it

vars == <<heap, inst, initDefault, last, text, conv>>

\* The opaque bytes of a NodePath: 0 is the null data pointer, b > 0 the
\* address of allocation b.
DataOf(hp, h) == IF h = 0 THEN Null ELSE hp[h].data

\* unref: the reference count drops by one; the data is released when it
\* reaches zero.
Unref(hp, h) ==
    IF h = 0 THEN hp
    ELSE [hp EXCEPT ![h] = [@ EXCEPT !.rc = @ - 1,
                                     !.freed = (hp[h].rc - 1 = 0) \/ @]]

\* node_path_construct_default: the empty path, no allocation.
NodePathConstructDefault(hp) ==
    [heap |-> hp, h |-> 0, calls |-> <<"node_path_construct_default">>]

\* node_path_construct_copy: shares the source's data, one more reference.
NodePathConstructCopy(hp, h) ==
    [heap  |-> IF h = 0 THEN hp ELSE [hp EXCEPT ![h].rc = @ + 1],
     h     |-> h,
     calls |-> <<"node_path_construct_copy">>]

\* node_path_destroy.
NodePathDestroy(hp, h) ==
    [heap |-> Unref(hp, h), calls |-> <<"node_path_destroy">>]

\* Storage no constructor has written yet.
Uninit == [uninit |-> TRUE]

\* node_path_from_string(dest, text).  Into uninitialised storage it
\* constructs in place; over an initialised NodePath (the calling
\* convention of from_sys_init_default) it assigns, releasing the value
\* that was there.  It allocates unless the text parses to nothing.
NodePathFromString(hp, dest, g) ==
    LET d   == ParsePath(g)
        hp1 == IF dest = Uninit THEN hp ELSE Unref(hp, dest.h)
    IN  IF d.null
        THEN [heap |-> hp1, h |-> 0, calls |-> <<"node_path_from_string">>]
        ELSE [heap  |-> Append(hp1, [rc |-> 1, data |-> d,
                                     freed |-> FALSE, eng |-> 0]),
              h     |-> Len(hp1) + 1,
              calls |-> <<"node_path_from_string">>]

\* ------------------------------------------------------ the host's wrapper

\* NodePath::as_inner: the engine's view of this instance's data.
AsInner(hp, h) == DataOf(hp, h)

IsEmptyInverted(hp, h) == ~InnerIsEmpty(AsInner(hp, h))

\* NodePath::is_empty
IsEmpty(hp, h) == InnerIsEmpty(AsInner(hp, h))

\* impl Default (node_path_construct_default)
Default(hp) == NodePathConstructDefault(hp)

CloneBitwise(hp, h) == [heap |-> hp, h |-> h, calls |-> <<>>]

\* impl Clone (node_path_construct_copy)
Clone(hp, h) == NodePathConstructCopy(hp, h)

DropForgets(hp, h) == [heap |-> hp, calls |-> <<>>]

DropTwice(hp, h) ==
    [heap  |-> Unref(Unref(hp, h), h),
     calls |-> <<"node_path_destroy", "node_path_destroy">>]

\* impl Drop (node_path_destroy)
Drop(hp, h) == NodePathDestroy(hp, h)

\* impl PartialEq / Eq (node_path_operator_equal)
Eq(hp, h1, h2) == OperatorEqual(DataOf(hp, h1), DataOf(hp, h2))

\* ffi_methods from_sys: reads the opaque bytes at ptr, no engine call.
FromSys(ptr) == ptr

FromArgPtrNoClone(hp, ptr) == [heap |-> hp, h |-> FromSys(ptr), calls |-> <<>>]

\* GodotFfi::from_arg_ptr: from_sys, then one clone that is forgotten (its
\* destructor never runs).
FromArgPtr(hp, ptr) ==
    LET node_path == FromSys(ptr)
        forgotten == Clone(hp, node_path)
    IN  [heap |-> forgotten.heap, h |-> node_path, calls |-> forgotten.calls]

\* ffi_methods from_sys_init: init_fn writes into uninitialised storage.
FromSysInit(hp, g) == NodePathFromString(hp, Uninit, g)

FromSysInitDefaultTwice(hp, g) ==
    LET result == Default(hp)
        first  == NodePathFromString(result.heap, [h |-> result.h], g)
        second == NodePathFromString(first.heap, [h |-> first.h], g)
    IN  [heap |-> second.heap, h |-> second.h,
         calls |-> result.calls \o first.calls \o second.calls]

\* GodotFfi::from_sys_init_default: a default instance, over whose storage
\* init_fn (here the node_path_from_string call of From<&GString>) then
\* constructs.
FromSysInitDefault(hp, g) ==
    LET result == Default(hp)
        init   == NodePathFromString(result.heap, [h |-> result.h], g)
    IN  [heap |-> init.heap, h |-> init.h, calls |-> result.calls \o init.calls]

\* sys::from_sys_init_or_init_default
FromSysInitOrInitDefault(hp, g, byDefault) ==
    IF byDefault THEN FromSysInitDefault(hp, g) ELSE FromSysInit(hp, g)

\* impl From<&GString> for NodePath
FromGString(hp, g, byDefault) == FromSysInitOrInitDefault(hp, g, byDefault)

\* impl From<S: AsRef<str>> for NodePath
FromStr(hp, s, byDefault) ==
    LET intermediate == GStringFromStr(s)
    IN  FromGString(hp, intermediate, byDefault)


\* impl From<&NodePath> for GString (impl_rust_string_conv): the engine's
\* NodePath -> String conversion.
GStringFromNodePath(hp, h) == PathToString(DataOf(hp, h))

DisplayAsDebug(hp, h) ==
    <<"^", "\"">> \o GStringDisplay(GStringFromNodePath(hp, h)) \o <<"\"">>

\* impl fmt::Display for NodePath (and so to_string)
Display(hp, h) ==
    LET string == GStringFromNodePath(hp, h)
    IN  GStringDisplay(string)

\* impl fmt::Debug for NodePath: ^"..."
Debug(hp, h) ==
    LET string == GStringFromNodePath(hp, h)
    IN  <<"^", "\"">> \o GStringDisplay(string) \o <<"\"">>

\* ------------------------------------------------------------------- hash

\* Integers are written in 16-bit limbs, most significant first: a u32 is
\* two limbs, an i64 four limbs in two's complement.
Limb == 65536

RECURSIVE HashCodes(_, _)
HashCodes(q, acc) ==
    IF q = <<>> THEN acc
    ELSE HashCodes(Tail(q), (acc * 31 + Head(q)) % Limb)

\* The engine's NodePath::hash(): a 32-bit value computed from the data.
PathHash(d) ==
    IF d.null THEN <<0, 0>>
    ELSE <<HashCodes(PathToString(d), 7), HashCodes(PathToString(d), 1)>>

\* The i64 the inner hash method returns.  The engine guarantees the u32
\* range (engine = "ok"); an engine that breaks the guarantee returns a
\* negative value or one of 2^32 and more.
HashEngines == {"ok", "negative", "wide"}

InnerHash(d, engine) ==
    CASE engine = "ok"       -> <<0, 0>> \o PathHash(d)
      [] engine = "negative" -> <<Limb - 1, Limb - 1>> \o PathHash(d)
      [] engine = "wide"     -> <<0, 1>> \o PathHash(d)

Panic == [panic |-> TRUE]

WrapAsU32(raw) == [panic |-> FALSE, value |-> <<raw[3], raw[4]>>]

\* .try_into().expect("Godot hashes are uint32_t")
TryIntoU32Expect(raw) ==
    IF raw[1] = 0 /\ raw[2] = 0
    THEN [panic |-> FALSE, value |-> <<raw[3], raw[4]>>]
    ELSE Panic

HashOpaqueBytes(hp, h, engine) == [panic |-> FALSE, value |-> <<0, h>>]

\* NodePath::hash
Hash(hp, h, engine) == TryIntoU32Expect(InnerHash(AsInner(hp, h), engine))

\* impl std::hash::Hash: what the instance feeds to the hasher.
StdHash(hp, h, engine) ==
    LET own == Hash(hp, h, engine)
    IN  IF own.panic THEN Panic ELSE [panic |-> FALSE, fed |-> <<own.value>>]

\* ------------------------------------------------------------------ serde

\* The shapes of input a deserializer may hold.
DeStr(s) == [shape |-> "str", text |-> s]
DeNum == [shape |-> "num"]
DeNewtype(x) == [shape |-> "newtype", inner |-> x]

DeError == [ok |-> FALSE]

\* How a format answers deserialize_newtype_struct on a bare value: it
\* hands itself to visit_newtype_struct ("transparent"), or it reports the
\* value it holds ("any").
DeFormats == {"transparent", "any"}

\* NodePathVisitor::visit_str
VisitStr(hp, s, byDefault) == [ok |-> TRUE, r |-> FromStr(hp, s, byDefault)]

\* Deserializer::deserialize_str: a text goes to visit_str; anything else
\* goes to a visit method the visitor does not define, whose default is an
\* invalid-type error.
DeserializeStr(hp, input, byDefault) ==
    IF input.shape = "str" THEN VisitStr(hp, input.text, byDefault)
    ELSE DeError

VisitNewtypeStructDefault(hp, inner, byDefault) == DeError

\* NodePathVisitor::visit_newtype_struct
VisitNewtypeStruct(hp, inner, byDefault) == DeserializeStr(hp, inner, byDefault)

\* Deserializer::deserialize_newtype_struct("NodePath", visitor)
DeserializeNewtypeStruct(hp, input, format, byDefault) ==
    IF input.shape = "newtype"
    THEN VisitNewtypeStruct(hp, input.inner, byDefault)
    ELSE IF format = "transparent"
    THEN VisitNewtypeStruct(hp, input, byDefault)
    ELSE IF input.shape = "str"
    THEN VisitStr(hp, input.text, byDefault)
    ELSE DeError

\* impl Deserialize for NodePath
Deserialize(hp, input, format, byDefault) ==
    DeserializeNewtypeStruct(hp, input, format, byDefault)


\* ------------------------------------------------------- lifecycle actions

\* The texts constructors are given in the lifecycle model: the empty text,
\* a relative path, the root, and a text the engine parses to nothing.
PathTexts == {<<>>, <<"a">>, <<"/">>, <<":">>}

DeInputs ==
    {DeStr(s) : s \in PathTexts} \cup {DeNum}
    \cup {DeNewtype(DeStr(s)) : s \in PathTexts} \cup {DeNewtype(DeNum)}

NoResult == [kind |-> "none"]

Count(calls, name) == Cardinality({k \in 1..Len(calls) : calls[k] = name})

\* A new host instance holding the bytes r.h; ctors are the engine calls
\* its construction made, from is the instance it was cloned from.
NewInst(r, origin, from) ==
    Append(inst, [live |-> TRUE, h |-> r.h, origin |-> origin,
                  ctors |-> r.calls, destroys |-> 0, from |-> from])

Live == {i \in 1..Len(inst) : inst[i].live}

Init ==
    /\ heap = <<>>
    /\ inst = <<>>
    /\ initDefault \in BOOLEAN
    /\ last = NoResult
    /\ text = <<>>
    /\ conv = NoResult

\* let p = NodePath::default();
DoDefault ==
    /\ Len(inst) < MaxInst
    /\ LET r == Default(heap)
       IN  /\ heap' = r.heap
           /\ inst' = NewInst(r, "default", 0)
    /\ UNCHANGED <<initDefault, last, text, conv>>

\* let q = p.clone();
DoClone(i) ==
    /\ i \in Live
    /\ Len(inst) < MaxInst
    /\ LET r == Clone(heap, inst[i].h)
       IN  /\ heap' = r.heap
           /\ inst' = NewInst(r, "clone", i)
    /\ UNCHANGED <<initDefault, last, text, conv>>

\* let p = NodePath::from(s);
DoFromStr(s) ==
    /\ Len(inst) < MaxInst
    /\ LET r == FromStr(heap, s, initDefault)
       IN  /\ Len(r.heap) <= MaxBlocks
           /\ heap' = r.heap
           /\ inst' = NewInst(r, "text", 0)
    /\ UNCHANGED <<initDefault, last, text, conv>>

\* p goes out of scope.
DoDrop(i) ==
    /\ i \in Live
    /\ LET r == Drop(heap, inst[i].h)
       IN  /\ heap' = r.heap
           /\ inst' = [inst EXCEPT
                         ![i].live = FALSE,
                         ![i].destroys = @ + Count(r.calls, "node_path_destroy")]
    /\ UNCHANGED <<initDefault, last, text, conv>>

\* The engine makes a NodePath of its own, which it may pass as an argument.
EngineMake(s) ==
    /\ LET r == NodePathFromString(heap, Uninit, GStringFromStr(s))
       IN  /\ r.h # 0
           /\ Len(r.heap) <= MaxBlocks
           /\ heap' = [r.heap EXCEPT ![r.h].eng = 1]
    /\ UNCHANGED <<inst, initDefault, last, text, conv>>

\* The engine destroys a NodePath of its own.
EngineRelease(b) ==
    /\ b \in 1..Len(heap)
    /\ heap[b].eng > 0
    /\ heap' = [Unref(heap, b) EXCEPT ![b].eng = @ - 1]
    /\ UNCHANGED <<inst, initDefault, last, text, conv>>

\* The pointers the engine can pass as a call argument: to one of its own
\* NodePaths, empty (0) or not.
ArgPtrs == {0} \cup {b \in 1..Len(heap) : heap[b].eng > 0}

\* The engine calls into the host with a NodePath argument.
DoFromArgPtr(ptr) ==
    /\ ptr \in ArgPtrs
    /\ Len(inst) < MaxInst
    /\ LET r == FromArgPtr(heap, ptr)
       IN  /\ heap' = r.heap
           /\ inst' = NewInst(r, "arg", 0)
    /\ UNCHANGED <<initDefault, last, text, conv>>

\* p.hash()
DoHash(i, engine) ==
    /\ i \in Live
    /\ last' = [kind |-> "hash", raw |-> InnerHash(AsInner(heap, inst[i].h), engine),
                out |-> Hash(heap, inst[i].h, engine)]
    /\ UNCHANGED <<heap, inst, initDefault, text, conv>>

\* NodePath::deserialize(deserializer)
DoDeserialize(input, format) ==
    /\ Len(inst) < MaxInst
    /\ LET res == Deserialize(heap, input, format, initDefault)
       IN  IF res.ok
           THEN /\ Len(res.r.heap) <= MaxBlocks
                /\ heap' = res.r.heap
                /\ inst' = NewInst(res.r, "text", 0)
                /\ last' = [kind |-> "de", input |-> input, ok |-> TRUE,
                            value |-> DataOf(res.r.heap, res.r.h),
                            calls |-> res.r.calls]
           ELSE /\ UNCHANGED <<heap, inst>>
                /\ last' = [kind |-> "de", input |-> input, ok |-> FALSE,
                            value |-> Null, calls |-> <<>>]
    /\ UNCHANGED <<initDefault, text, conv>>

\* The host constructs, clones and drops; the engine makes, passes and
\* destroys values of its own.
Next ==
    \/ DoDefault
    \/ \E i \in 1..Len(inst) : DoClone(i)
    \/ \E s \in PathTexts : DoFromStr(s)
    \/ \E i \in 1..Len(inst) : DoDrop(i)
    \/ \E s \in PathTexts : EngineMake(s)
    \/ \E b \in 1..Len(heap) : EngineRelease(b)
    \/ \E ptr \in 0..Len(heap) : DoFromArgPtr(ptr)

Spec == Init /\ [][Next]_vars

\* The host constructs, hashes, deserializes and drops.
NextCalls ==
    \/ DoDefault
    \/ \E i \in 1..Len(inst) : DoClone(i)
    \/ \E s \in PathTexts : DoFromStr(s)
    \/ \E i \in 1..Len(inst) : DoDrop(i)
    \/ \E i \in 1..Len(inst), engine \in HashEngines : DoHash(i, engine)
    \/ \E input \in DeInputs, format \in DeFormats : DoDeserialize(input, format)

SpecCalls == Init /\ [][NextCalls]_vars


\* -------------------------------------------------------- text conversions

InitText ==
    /\ heap = <<>>
    /\ inst = <<>>
    /\ initDefault \in BOOLEAN
    /\ last = NoResult
    /\ text \in StringsUpTo(MaxLen)
    /\ conv = NoResult

\* let p = NodePath::from(text);
TextFromStr ==
    /\ inst = <<>>
    /\ DoFromStr(text)

\* let d = NodePath::default();
TextDefault ==
    /\ Len(inst) = 1
    /\ DoDefault

\* p.to_string()
DoDisplay(i) ==
    /\ i \in Live
    /\ conv' = [kind |-> "display", i |-> i, out |-> Display(heap, inst[i].h)]
    /\ UNCHANGED <<heap, inst, initDefault, last, text>>

\* format!("{:?}", p)
DoDebug(i) ==
    /\ i \in Live
    /\ conv' = [kind |-> "debug", i |-> i, out |-> Debug(heap, inst[i].h)]
    /\ UNCHANGED <<heap, inst, initDefault, last, text>>

\* p.is_empty()
DoIsEmpty(i) ==
    /\ i \in Live
    /\ conv' = [kind |-> "is_empty", i |-> i, out |-> IsEmpty(heap, inst[i].h)]
    /\ UNCHANGED <<heap, inst, initDefault, last, text>>

\* p == d
DoEq(i, j) ==
    /\ i \in Live
    /\ j \in Live
    /\ i < j
    /\ conv' = [kind |-> "eq", i |-> i, j |-> j,
                out |-> Eq(heap, inst[i].h, inst[j].h)]
    /\ UNCHANGED <<heap, inst, initDefault, last, text>>

NextText ==
    \/ TextFromStr
    \/ TextDefault
    \/ \E i \in 1..Len(inst) : DoDisplay(i)
    \/ \E i \in 1..Len(inst) : DoDebug(i)
    \/ \E i \in 1..Len(inst) : DoIsEmpty(i)
    \/ \E i \in 1..Len(inst), j \in 1..Len(inst) : DoEq(i, j)

SpecText == InitText /\ [][NextText]_vars


\* ------------------------------------------------------------- properties

Insts == 1..Len(inst)
Blocks == 1..Len(heap)

\* The live host instances whose bytes point to allocation b.
Holders(b) == {i \in Live : inst[i].h = b}

\* Instances made by default construction, clone or conversion from text.
Constructed == {i \in Insts : inst[i].origin \in {"default", "clone", "text"}}

\* The engine calls that construct an instance of each origin.
CtorsOf(i) ==
    CASE inst[i].origin = "default" -> <<"node_path_construct_default">>
      [] inst[i].origin = "clone"   -> <<"node_path_construct_copy">>
      [] inst[i].origin = "text"    ->
             IF initDefault
             THEN <<"node_path_construct_default", "node_path_from_string">>
             ELSE <<"node_path_from_string">>

DestroyedOnce(i) == inst[i].destroys = (IF inst[i].live THEN 0 ELSE 1)

\* C1 as stated: every instance made by default construction, clone or
\* conversion from text was produced by exactly one engine constructor
\* call, and node_path_destroy has run on it exactly once when it is gone
\* (and not at all before).
C1_OneConstructorCall ==
    \A i \in Constructed :
        /\ Len(inst[i].ctors) = 1
        /\ inst[i].ctors[1] \in {"node_path_construct_default",
                                 "node_path_construct_copy",
                                 "node_path_from_string"}
        /\ DestroyedOnce(i)

\* C1 amended: every such instance was produced by the one constructor call
\* of its origin, or - conversion from text through from_sys_init_default -
\* by node_path_construct_default followed by one node_path_from_string on
\* the same storage; and node_path_destroy has run on it exactly once when
\* it is gone, never before and never twice.
C1_ConstructedThenDestroyedOnce ==
    \A i \in Constructed :
        /\ inst[i].ctors = CtorsOf(i)
        /\ DestroyedOnce(i)

C1_Witness ==
    \E i, j \in Constructed :
        /\ inst[i].origin = "text" /\ ~inst[i].live /\ inst[i].destroys = 1
        /\ inst[i].h # 0
        /\ inst[j].origin = "clone" /\ ~inst[j].live /\ inst[j].destroys = 1

\* C2: from_arg_ptr adds exactly one reference for the instance it returns:
\* every allocation's refcount is the number of references the engine owns
\* plus the number of live host instances pointing to it, so dropping the
\* returned instance puts the count back, and a value the engine still owns
\* has not been released.
C2_ArgPtrRefcount ==
    \A b \in Blocks :
        /\ heap[b].rc = heap[b].eng + Cardinality(Holders(b))
        /\ heap[b].eng > 0 => ~heap[b].freed /\ heap[b].rc >= 1

C2_Witness ==
    \E i \in Insts :
        /\ inst[i].origin = "arg" /\ ~inst[i].live /\ inst[i].h # 0
        /\ heap[inst[i].h].eng = 1
        /\ heap[inst[i].h].rc = 1
        /\ ~heap[inst[i].h].freed

\* The data a live instance points to is still allocated.
Valid(i) == inst[i].h = 0 \/ (~heap[inst[i].h].freed /\ heap[inst[i].h].rc >= 1)

\* C3: a clone equals the instance it was cloned from, an instance stays
\* valid whichever of the two is dropped first, and the shared data is
\* released only when nothing points to it any more.
C3_CloneIndependent ==
    /\ \A i \in Live :
        /\ Valid(i)
        /\ (inst[i].origin = "clone" /\ inst[i].from \in Live)
               => Eq(heap, inst[i].h, inst[inst[i].from].h)
    /\ \A b \in Blocks : heap[b].freed => Holders(b) = {}

C3_Witness ==
    \E i, j \in Insts :
        /\ inst[i].origin = "clone" /\ inst[i].from = j /\ inst[i].h # 0
        /\ \/ inst[i].live /\ ~inst[j].live
           \/ ~inst[i].live /\ inst[j].live

\* C4: once every host instance has gone out of scope, the engine holds
\* nothing on the host's behalf: each allocation's refcount is what the
\* engine itself owns, and an allocation nobody owns has been released.
C4_NoLeak ==
    Live = {} =>
        \A b \in Blocks :
            /\ heap[b].rc = heap[b].eng
            /\ heap[b].eng = 0 => heap[b].freed

C4_Witness ==
    /\ Live = {}
    /\ \E i, j \in Insts :
        /\ inst[i].origin = "text" /\ inst[i].h # 0 /\ heap[inst[i].h].freed
        /\ inst[j].origin = "clone" /\ inst[j].h = inst[i].h

\* C10: from_sys_init_default default-constructs, then runs init_fn once on
\* that storage; the instance owns the one reference init_fn wrote, is
\* destroyed once, and no allocation is left without an owner.
C10_InitDefault ==
    /\ \A i \in Insts :
        (inst[i].origin = "text" /\ initDefault) =>
            /\ inst[i].ctors = <<"node_path_construct_default",
                                 "node_path_from_string">>
            /\ inst[i].live => Valid(i)
            /\ (inst[i].live /\ inst[i].h # 0 /\ heap[inst[i].h].eng = 0
                  /\ Holders(inst[i].h) = {i}) => heap[inst[i].h].rc = 1
            /\ DestroyedOnce(i)
    /\ initDefault =>
         \A b \in Blocks :
            (Holders(b) = {} /\ heap[b].eng = 0) => heap[b].freed /\ heap[b].rc = 0

C10_Witness ==
    /\ initDefault
    /\ \E i \in Insts :
        /\ inst[i].origin = "text" /\ inst[i].h # 0
        /\ ~inst[i].live /\ heap[inst[i].h].freed

\* The value NodePath::from(t) holds.
FromText(t) ==
    LET r == FromStr(<<>>, t, FALSE) IN DataOf(r.heap, r.h)

Accepted(input) ==
    \/ input.shape = "str"
    \/ input.shape = "newtype" /\ input.inner.shape = "str"

TextIn(input) == IF input.shape = "str" THEN input.text ELSE input.inner.text

\* C6: deserialize returns NodePath::from(t) for a bare text t and for the
\* newtype wrapper of a text t, and for any other input an error, having
\* constructed nothing.
C6_Deserialize ==
    last.kind = "de" =>
        IF Accepted(last.input)
        THEN last.ok /\ OperatorEqual(last.value, FromText(TextIn(last.input)))
        ELSE ~last.ok /\ last.calls = <<>>

C6_Witness ==
    /\ last.kind = "de"
    /\ last.input.shape = "newtype"
    /\ last.ok
    /\ ~last.value.null

Negative(raw) == raw[1] >= Limb \div 2
TooWide(raw) == ~Negative(raw) /\ (raw[1] > 0 \/ raw[2] > 0)

\* C8: NodePath::hash returns the engine's value unchanged when it is within
\* u32, and panics when it is negative or 2^32 or more.
C8_HashRange ==
    last.kind = "hash" =>
        IF Negative(last.raw) \/ TooWide(last.raw)
        THEN last.out = Panic
        ELSE last.out = [panic |-> FALSE, value |-> SubSeq(last.raw, 3, 4)]

C8_Witness ==
    /\ last.kind = "hash"
    /\ Negative(last.raw)
    /\ last.out = Panic

\* Whether text holds two adjacent occurrences of c.
Doubled(s, c) == \E k \in 1..(Len(s) - 1) : s[k] = c /\ s[k + 1] = c

\* The part of a text before its first colon.
HeadOf(s) ==
    IF \E k \in 1..Len(s) : s[k] = ":"
    THEN SubSeq(s, 1, (CHOOSE k \in 1..Len(s) :
                          s[k] = ":" /\ \A j \in 1..(k - 1) : s[j] # ":") - 1)
    ELSE s

\* A text in the form the engine writes paths in: no empty name (no doubled
\* or trailing slash, the root "/" apart) and no empty subname.
Canonical(s) ==
    /\ ~Doubled(s, ":")
    /\ s # <<>> => s[Len(s)] # ":"
    /\ ~Doubled(HeadOf(s), "/")
    /\ Len(HeadOf(s)) > 1 => HeadOf(s)[Len(HeadOf(s))] # "/"

FromTextShown ==
    conv.kind = "display" /\ inst[conv.i].origin = "text"

ParsesToNothing(s) == s = <<>> \/ s = <<":">> \/ Doubled(s, ":")

IsTextInst(i) == inst[i].origin = "text"
IsDefaultInst(i) == inst[i].origin = "default"

====
